---- MODULE Spec2Model ----
(***************************************************************************)
(* Ordered set (BTreeSet) of src/set.rs: a newtype around                  *)
(* BTreeMap<'store, T, ()>.  Every set operation forwards to the map with  *)
(* the value fixed to unit; every set iterator wraps a map iterator and    *)
(* strips the unit.  The map and its iterators live in other files of the  *)
(* crate; they are modelled from the interface description (an ordered     *)
(* sequence of entries, cursor-pair iterators).                            *)
(***************************************************************************)
EXTENDS Integers, Sequences, FiniteSets, TLC

\* ---------------------------------------------------------------- bounds
MaxKey == 3
MaxTag == 2
NumStores == 2

Keys == 1..MaxKey
Tags == 1..MaxTag
Stores == 1..NumStores

\* An element of type T is <<key, tag>>.  Ord on T compares the key only;
\* the tag is the information an element carries beyond what makes it
\* equal to another one.  The query type U is the key: Borrow<U> for T.
T == Keys \X Tags
borrow(e) == e[1]

\* The unit value ().
Unit == "()"

\* ------------------------------------------------------ Option<X> values
None == <<>>
Some(x) == <<x>>
is_none(o) == o = <<>>
is_some(o) == o # <<>>

\* ---------------------------------------------------- the map (engine)
\* A map is [store, root]: the store it is bound to and its entries
\* <<key, value>> in strictly ascending key order.
Map_new_in(store) == [store |-> store, root |-> <<>>]

Map_len(m) == Len(m.root)

Map_is_empty(m) == Len(m.root) = 0

Map_clear(m) == [m EXCEPT !.root = <<>>]

\* index of the entry whose key equals the query, 0 when there is none
Map_find(m, q) ==
    IF \E i \in 1..Len(m.root) : borrow(m.root[i][1]) = q
    THEN CHOOSE i \in 1..Len(m.root) : borrow(m.root[i][1]) = q
    ELSE 0

Map_first_key_value(m) == IF Len(m.root) = 0 THEN None ELSE Some(m.root[1])

Map_last_key_value(m) == IF Len(m.root) = 0 THEN None ELSE Some(m.root[Len(m.root)])

Map_contains_key(m, q) == Map_find(m, q) # 0

Map_get_key(m, q) ==
    IF Map_find(m, q) = 0 THEN None ELSE Some(m.root[Map_find(m, q)][1])

\* insert(key, value) -> Option<V>: the previous value if the key existed
\* (the stored key is kept), else the entry is added at its sorted place.
Map_insert(m, k, v) ==
    LET i == Map_find(m, borrow(k))
        p == Cardinality({j \in 1..Len(m.root) : borrow(m.root[j][1]) < borrow(k)})
    IN  IF i # 0
        THEN [map |-> [m EXCEPT !.root[i] = <<m.root[i][1], v>>],
              ret |-> Some(m.root[i][2])]
        ELSE [map |-> [m EXCEPT !.root = SubSeq(m.root, 1, p) \o <<<<k, v>>>>
                                         \o SubSeq(m.root, p + 1, Len(m.root))],
              ret |-> None]

\* remove(query) -> Option<V>
Map_remove(m, q) ==
    LET i == Map_find(m, q)
    IN  IF i = 0
        THEN [map |-> m, ret |-> None]
        ELSE [map |-> [m EXCEPT !.root = SubSeq(m.root, 1, i - 1)
                                         \o SubSeq(m.root, i + 1, Len(m.root))],
              ret |-> Some(m.root[i][2])]

\* pop_first/pop_last -> Option<(K, V)>
Map_pop_first(m) ==
    IF Len(m.root) = 0
    THEN [map |-> m, ret |-> None]
    ELSE [map |-> [m EXCEPT !.root = Tail(m.root)], ret |-> Some(Head(m.root))]

Map_pop_last(m) ==
    IF Len(m.root) = 0
    THEN [map |-> m, ret |-> None]
    ELSE [map |-> [m EXCEPT !.root = SubSeq(m.root, 1, Len(m.root) - 1)],
          ret |-> Some(m.root[Len(m.root)])]

\* extend(iterable of (K, V)): insert one by one, in order
RECURSIVE Map_extend(_, _)
Map_extend(m, kvs) ==
    IF kvs = <<>> THEN m
    ELSE Map_extend(Map_insert(m, Head(kvs)[1], Head(kvs)[2]).map, Tail(kvs))

\* ------------------------------------------- the map's iterators (engine)
\* iter / into_iter: a front and a back cursor into the entries, and the
\* number of entries still to be produced.
Map_iter(m) == [btree |-> m, front |-> 1, back |-> Len(m.root), len |-> Len(m.root)]

Map_into_iter(m) == [btree |-> m, front |-> 1, back |-> Len(m.root), len |-> Len(m.root)]

\* variant of MapIter_next that tests the front cursor against the end of
\* the tree instead of the remaining count
MapIter_next_cursor(i) ==
    IF i.front > Len(i.btree.root)
    THEN [it |-> i, ret |-> None]
    ELSE [it |-> [i EXCEPT !.front = @ + 1, !.len = IF @ > 0 THEN @ - 1 ELSE 0],
          ret |-> Some(i.btree.root[i.front])]

MapIter_next(i) ==
    IF i.len = 0
    THEN [it |-> i, ret |-> None]
    ELSE [it |-> [i EXCEPT !.front = @ + 1, !.len = @ - 1],
          ret |-> Some(i.btree.root[i.front])]

MapIter_next_back(i) ==
    IF i.len = 0
    THEN [it |-> i, ret |-> None]
    ELSE [it |-> [i EXCEPT !.back = @ - 1, !.len = @ - 1],
          ret |-> Some(i.btree.root[i.back])]

MapIter_size_hint(i) == <<i.len, Some(i.len)>>

MapIter_len(i) == i.len

\* A bound is <<"Unbounded">>, <<"Included", q>> or <<"Excluded", q>>;
\* bounds are <<start_bound, end_bound>>.
Bound == {<<"Unbounded">>} \cup ({"Included", "Excluded"} \X Keys)
Bounds == Bound \X Bound

AboveStart(b, q) ==
    CASE b[1] = "Unbounded" -> TRUE
      [] b[1] = "Included"  -> q >= b[2]
      [] b[1] = "Excluded"  -> q > b[2]

BelowEnd(b, q) ==
    CASE b[1] = "Unbounded" -> TRUE
      [] b[1] = "Included"  -> q <= b[2]
      [] b[1] = "Excluded"  -> q < b[2]

\* range(bounds): the front cursor at the first entry not below the start
\* bound, the back cursor at the last entry not above the end bound; no
\* count is kept.
Map_range(m, bounds) ==
    [btree |-> m,
     front |-> 1 + Cardinality({j \in 1..Len(m.root) :
                                    ~AboveStart(bounds[1], borrow(m.root[j][1]))}),
     back  |-> Cardinality({j \in 1..Len(m.root) :
                                    BelowEnd(bounds[2], borrow(m.root[j][1]))})]

MapRange_next(r) ==
    IF r.front > r.back
    THEN [it |-> r, ret |-> None]
    ELSE [it |-> [r EXCEPT !.front = @ + 1], ret |-> Some(r.btree.root[r.front])]

MapRange_next_back(r) ==
    IF r.front > r.back
    THEN [it |-> r, ret |-> None]
    ELSE [it |-> [r EXCEPT !.back = @ - 1], ret |-> Some(r.btree.root[r.back])]

\* ---------------------------------------------------------- BTreeSet
\* pub struct BTreeSet<'store, T>(BTreeMap<'store, T, ()>): the set is its
\* map, field 0.
BTreeSet_new_in(store) == Map_new_in(store)

BTreeSet_len(s) == Map_len(s)

BTreeSet_is_empty(s) == Map_is_empty(s)

BTreeSet_clear(s) == Map_clear(s)

\* .map(|(k, &())| k) on an Option<(K, V)>
OptKey(o) == IF o = None THEN None ELSE Some(o[1][1])

BTreeSet_first(s) == OptKey(Map_first_key_value(s))

BTreeSet_last(s) == OptKey(Map_last_key_value(s))

BTreeSet_contains(s, q) == Map_contains_key(s, q)

BTreeSet_get(s, q) == Map_get_key(s, q)

\* variant of insert with the test inverted: is_some() for is_none()
BTreeSet_insert_is_some(s, v) ==
    [set |-> Map_insert(s, v, Unit).map, ret |-> is_some(Map_insert(s, v, Unit).ret)]

\* variant of insert that replaces the stored element: remove, then insert
BTreeSet_insert_replace(s, v) ==
    [set |-> Map_insert(Map_remove(s, borrow(v)).map, v, Unit).map,
     ret |-> is_none(Map_insert(s, v, Unit).ret)]

BTreeSet_insert(s, v) ==
    [set |-> Map_insert(s, v, Unit).map, ret |-> is_none(Map_insert(s, v, Unit).ret)]

\* variant of remove with the test inverted: is_none() for is_some()
BTreeSet_remove_is_none(s, q) ==
    [set |-> Map_remove(s, q).map, ret |-> is_none(Map_remove(s, q).ret)]

BTreeSet_remove(s, q) ==
    [set |-> Map_remove(s, q).map, ret |-> is_some(Map_remove(s, q).ret)]

\* variant of pop_first that forwards to the map's pop_last
BTreeSet_pop_first_last(s) ==
    [set |-> Map_pop_last(s).map, ret |-> OptKey(Map_pop_last(s).ret)]

BTreeSet_pop_first(s) ==
    [set |-> Map_pop_first(s).map, ret |-> OptKey(Map_pop_first(s).ret)]

BTreeSet_pop_last(s) ==
    [set |-> Map_pop_last(s).map, ret |-> OptKey(Map_pop_last(s).ret)]

\* iter.into_iter().map(|v| (v, ()))
RECURSIVE WithUnit(_)
WithUnit(vs) == IF vs = <<>> THEN <<>> ELSE <<<<Head(vs), Unit>>>> \o WithUnit(Tail(vs))

\* variant of extend that takes only the first item of the iterator
BTreeSet_extend_first(s, vs) ==
    IF vs = <<>> THEN s ELSE Map_insert(s, Head(vs), Unit).map

BTreeSet_extend(s, vs) == Map_extend(s, WithUnit(vs))

\* Iter(self.0.iter()), IntoIter(self.0.into_iter()), Range(self.0.range(bounds))
BTreeSet_iter(s) == Map_iter(s)

BTreeSet_into_iter(s) == Map_into_iter(s)

\* variant of range that drops the bounds: Range over the whole map
BTreeSet_range_unbounded(s, bounds) == Map_range(s, <<<<"Unbounded">>, <<"Unbounded">>>>)

BTreeSet_range(s, bounds) == Map_range(s, bounds)

\* --------------------------------------------- Iter, IntoIter, Range
\* variant of Iter::next that forwards to the map iterator's next_back
Iter_next_from_back(i) ==
    [it |-> MapIter_next_back(i).it, ret |-> OptKey(MapIter_next_back(i).ret)]

Iter_next(i) == [it |-> MapIter_next(i).it, ret |-> OptKey(MapIter_next(i).ret)]

\* variant of Iter::next_back that forwards to the map iterator's next
Iter_next_back_from_front(i) ==
    [it |-> MapIter_next(i).it, ret |-> OptKey(MapIter_next(i).ret)]

Iter_next_back(i) == [it |-> MapIter_next_back(i).it, ret |-> OptKey(MapIter_next_back(i).ret)]

Iter_size_hint(i) == MapIter_size_hint(i)

\* variant of Iter::len that reports the length of the whole map
Iter_len_total(i) == Map_len(i.btree)

Iter_len(i) == MapIter_len(i)

IntoIter_next(i) == [it |-> MapIter_next(i).it, ret |-> OptKey(MapIter_next(i).ret)]

IntoIter_next_back(i) ==
    [it |-> MapIter_next_back(i).it, ret |-> OptKey(MapIter_next_back(i).ret)]

IntoIter_size_hint(i) == MapIter_size_hint(i)

IntoIter_len(i) == MapIter_len(i)

Range_next(r) == [it |-> MapRange_next(r).it, ret |-> OptKey(MapRange_next(r).ret)]

Range_next_back(r) ==
    [it |-> MapRange_next_back(r).it, ret |-> OptKey(MapRange_next_back(r).ret)]

\* ------------------------------------------------------------- state
\* the elements of a set, as the sequence of its stored keys
Elems(s) == [j \in 1..Len(s.root) |-> s.root[j][1]]

InBounds(bounds, e) == AboveStart(bounds[1], borrow(e)) /\ BelowEnd(bounds[2], borrow(e))

Restrict(es, bounds) == LET Test(e) == InBounds(bounds, e) IN SelectSeq(es, Test)

NoIter == [kind |-> "none", inner |-> <<>>]

VARIABLES
    set,        \* the BTreeSet binding
    moved,      \* TRUE once into_iter has consumed the binding
    it,         \* the live iterator: [kind, inner], kind "none" when there is none
    ret,        \* the last call: [op, arg, val]
    pre,        \* the set as it was when the last call started
    pure,       \* only insert has been called since new_in
    insKeys,    \* the keys passed to insert since new_in, kept while pure
    src,        \* the elements the live iterator was created over
    yielded,    \* what the live iterator has produced: <<"next" | "next_back", element>>
    exhausted   \* the live iterator has returned None

vars == <<set, moved, it, ret, pre, pure, insKeys, src, yielded, exhausted>>

Init ==
    /\ \E st \in Stores : set = BTreeSet_new_in(st)
    /\ moved = FALSE
    /\ it = NoIter
    /\ ret = [op |-> "new_in", arg |-> set.store, val |-> Unit]
    /\ pre = set
    /\ pure = TRUE
    /\ insKeys = {}
    /\ src = <<>>
    /\ yielded = <<>>
    /\ exhausted = FALSE

\* &mut self needs the binding alive and not borrowed by an iterator
Mutable == ~moved /\ it.kind = "none"

NoIterChange == UNCHANGED <<it, src, yielded, exhausted>>

NewIn(st) ==
    /\ it.kind = "none"
    /\ set' = BTreeSet_new_in(st)
    /\ moved' = FALSE
    /\ ret' = [op |-> "new_in", arg |-> st, val |-> Unit]
    /\ pre' = set'
    /\ pure' = TRUE
    /\ insKeys' = {}
    /\ NoIterChange

Insert(v) ==
    /\ Mutable
    /\ set' = BTreeSet_insert(set, v).set
    /\ ret' = [op |-> "insert", arg |-> v, val |-> BTreeSet_insert(set, v).ret]
    /\ pre' = set
    /\ insKeys' = IF pure THEN insKeys \cup {borrow(v)} ELSE {}
    /\ UNCHANGED <<moved, pure>>
    /\ NoIterChange

Remove(q) ==
    /\ Mutable
    /\ set' = BTreeSet_remove(set, q).set
    /\ ret' = [op |-> "remove", arg |-> q, val |-> BTreeSet_remove(set, q).ret]
    /\ pre' = set
    /\ pure' = FALSE
    /\ insKeys' = {}
    /\ UNCHANGED moved
    /\ NoIterChange

PopFirst ==
    /\ Mutable
    /\ set' = BTreeSet_pop_first(set).set
    /\ ret' = [op |-> "pop_first", arg |-> Unit, val |-> BTreeSet_pop_first(set).ret]
    /\ pre' = set
    /\ pure' = FALSE
    /\ insKeys' = {}
    /\ UNCHANGED moved
    /\ NoIterChange

PopLast ==
    /\ Mutable
    /\ set' = BTreeSet_pop_last(set).set
    /\ ret' = [op |-> "pop_last", arg |-> Unit, val |-> BTreeSet_pop_last(set).ret]
    /\ pre' = set
    /\ pure' = FALSE
    /\ insKeys' = {}
    /\ UNCHANGED moved
    /\ NoIterChange

Clear ==
    /\ Mutable
    /\ set' = BTreeSet_clear(set)
    /\ ret' = [op |-> "clear", arg |-> Unit, val |-> Unit]
    /\ pre' = set
    /\ pure' = FALSE
    /\ insKeys' = {}
    /\ UNCHANGED moved
    /\ NoIterChange

\* a new iterator of the given kind over the elements es
Start(kind, inner, es, arg) ==
    /\ it' = [kind |-> kind, inner |-> inner]
    /\ ret' = [op |-> kind, arg |-> arg, val |-> Unit]
    /\ pre' = set
    /\ src' = es
    /\ yielded' = <<>>
    /\ exhausted' = FALSE
    /\ UNCHANGED <<set, pure, insKeys>>

IterNew ==
    /\ Mutable
    /\ Start("Iter", BTreeSet_iter(set), Elems(set), Unit)
    /\ UNCHANGED moved

RangeNew(bounds) ==
    /\ Mutable
    /\ Start("Range", BTreeSet_range(set, bounds), Restrict(Elems(set), bounds), bounds)
    /\ UNCHANGED moved

IntoIterNew ==
    /\ Mutable
    /\ Start("IntoIter", BTreeSet_into_iter(set), Elems(set), Unit)
    /\ moved' = TRUE

\* one next()/next_back() call on the live iterator, r its outcome
Advance(op, r) ==
    /\ it' = [it EXCEPT !.inner = r.it]
    /\ ret' = [op |-> op, arg |-> Unit, val |-> r.ret]
    /\ pre' = set
    /\ yielded' = IF r.ret = None THEN yielded ELSE Append(yielded, <<op, r.ret[1]>>)
    /\ exhausted' = (exhausted \/ r.ret = None)
    /\ UNCHANGED <<set, moved, pure, insKeys, src>>

IterNext == it.kind = "Iter" /\ Advance("next", Iter_next(it.inner))

IterNextBack == it.kind = "Iter" /\ Advance("next_back", Iter_next_back(it.inner))

IntoIterNext == it.kind = "IntoIter" /\ Advance("next", IntoIter_next(it.inner))

IntoIterNextBack == it.kind = "IntoIter" /\ Advance("next_back", IntoIter_next_back(it.inner))

RangeNext == it.kind = "Range" /\ Advance("next", Range_next(it.inner))

RangeNextBack == it.kind = "Range" /\ Advance("next_back", Range_next_back(it.inner))

\* the sequence a drain collected, in the order it was produced
Drained(ys) == [j \in 1..Len(ys) |-> ys[j][2]]

\* after a drain to exhaustion: a fresh set on the same store, extended with
\* the collected sequence
ExtendDrained ==
    /\ it.kind = "IntoIter"
    /\ exhausted
    /\ moved
    /\ set' = BTreeSet_extend(BTreeSet_new_in(it.inner.btree.store), Drained(yielded))
    /\ moved' = FALSE
    /\ ret' = [op |-> "extend", arg |-> Drained(yielded), val |-> Unit]
    /\ pre' = BTreeSet_new_in(it.inner.btree.store)
    /\ pure' = FALSE
    /\ insKeys' = {}
    /\ NoIterChange

\* the iterator goes out of scope
DropIter ==
    /\ it.kind # "none"
    /\ it' = NoIter
    /\ ret' = [op |-> "drop", arg |-> Unit, val |-> Unit]
    /\ pre' = set
    /\ src' = <<>>
    /\ yielded' = <<>>
    /\ exhausted' = FALSE
    /\ UNCHANGED <<set, moved, pure, insKeys>>

Next ==
    \/ \E st \in Stores : NewIn(st)
    \/ \E v \in T : Insert(v)
    \/ \E q \in Keys : Remove(q)
    \/ PopFirst
    \/ PopLast
    \/ Clear
    \/ IterNew
    \/ \E bounds \in Bounds : RangeNew(bounds)
    \/ IntoIterNew
    \/ IterNext
    \/ IterNextBack
    \/ IntoIterNext
    \/ IntoIterNextBack
    \/ RangeNext
    \/ RangeNextBack
    \/ ExtendDrained
    \/ DropIter

Spec == Init /\ [][Next]_vars

\* ------------------------------------------------------------ claims
\* iter() run forward to exhaustion / range(bounds) run forward to exhaustion
RECURSIVE CollectIter(_)
CollectIter(i) ==
    IF Iter_next(i).ret = None THEN <<>>
    ELSE <<Iter_next(i).ret[1]>> \o CollectIter(Iter_next(i).it)

RECURSIVE CollectRange(_)
CollectRange(r) ==
    IF Range_next(r).ret = None THEN <<>>
    ELSE <<Range_next(r).ret[1]>> \o CollectRange(Range_next(r).it)

StrictlyAscending(es) == \A j \in 1..(Len(es) - 1) : borrow(es[j]) < borrow(es[j + 1])

KeysOf(es) == {borrow(es[j]) : j \in 1..Len(es)}

Reverse(es) == [j \in 1..Len(es) |-> es[Len(es) + 1 - j]]

\* what the live iterator produced through next() / through next_back()
Fronts == LET IsF(y) == y[1] = "next" IN Drained(SelectSeq(yielded, IsF))
Backs == LET IsB(y) == y[1] = "next_back" IN Drained(SelectSeq(yielded, IsB))

\* C1: after any sequence of insert calls on a set created empty by new_in,
\* len() is the number of distinct elements inserted and iter() yields
\* exactly those elements, each once, in strictly ascending order.
C1_InsertLenIter ==
    (pure /\ ~moved) =>
        /\ BTreeSet_len(set) = Cardinality(insKeys)
        /\ StrictlyAscending(CollectIter(BTreeSet_iter(set)))
        /\ KeysOf(CollectIter(BTreeSet_iter(set))) = insKeys
        /\ Len(CollectIter(BTreeSet_iter(set))) = Cardinality(insKeys)

C1_Witness ==
    /\ pure /\ ~moved
    /\ Cardinality(insKeys) >= 3
    /\ ret.op = "insert" /\ ret.val = FALSE

\* C2: insert(x) returns true iff no element equal to x was in the set
\* before the call, and contains(x) holds after it; an insert(x) that
\* directly follows an insert(x) returns false and leaves len() unchanged.
C2_InsertResult ==
    [][ret'.op = "insert" =>
          /\ ret'.val = ~BTreeSet_contains(set, borrow(ret'.arg))
          /\ BTreeSet_contains(set', borrow(ret'.arg))
          /\ (ret.op = "insert" /\ borrow(ret.arg) = borrow(ret'.arg)) =>
                /\ ret'.val = FALSE
                /\ BTreeSet_len(set') = BTreeSet_len(set)]_vars

C2_Witness ==
    /\ ret.op = "insert" /\ ret.val = FALSE
    /\ BTreeSet_len(set) >= 2
    /\ BTreeSet_len(set) = BTreeSet_len(pre)

\* C3: insert(v) while an equal element e is stored does not replace it:
\* get(v) still returns e and every element of the set is unchanged.
C3_InsertKeepsFirst ==
    (ret.op = "insert" /\ BTreeSet_contains(pre, borrow(ret.arg))) =>
        /\ BTreeSet_get(set, borrow(ret.arg)) = BTreeSet_get(pre, borrow(ret.arg))
        /\ Elems(set) = Elems(pre)

C3_Witness ==
    /\ ret.op = "insert"
    /\ BTreeSet_contains(pre, borrow(ret.arg))
    /\ BTreeSet_get(set, borrow(ret.arg)) # Some(ret.arg)
    /\ BTreeSet_len(set) >= 2

\* C4: remove(q) returns true iff an element equal to q was present, and
\* contains(q) is false afterwards; when none was present it returns false
\* and leaves the contents and len() unchanged.
C4_RemoveResult ==
    ret.op = "remove" =>
        /\ ret.val = BTreeSet_contains(pre, ret.arg)
        /\ ~BTreeSet_contains(set, ret.arg)
        /\ ~BTreeSet_contains(pre, ret.arg) =>
              /\ ret.val = FALSE
              /\ set = pre
              /\ BTreeSet_len(set) = BTreeSet_len(pre)

C4_Witness ==
    /\ ret.op = "remove" /\ ret.val = FALSE
    /\ BTreeSet_len(set) >= 2

\* C5: on a non-empty set pop_first() (pop_last()) returns the minimum
\* (maximum) element and removes exactly it: len() drops by one, contains
\* of it is false, all other elements stay; on an empty set both return
\* None and the set stays empty.
PopRemoved(e) ==
    /\ e \in {pre.root[j][1] : j \in 1..Len(pre.root)}
    /\ BTreeSet_len(set) = BTreeSet_len(pre) - 1
    /\ ~BTreeSet_contains(set, borrow(e))
    /\ {set.root[j][1] : j \in 1..Len(set.root)}
          = {pre.root[j][1] : j \in 1..Len(pre.root)} \ {e}

C5_PopEnds ==
    /\ ret.op = "pop_first" =>
          IF BTreeSet_is_empty(pre)
          THEN ret.val = None /\ BTreeSet_is_empty(set)
          ELSE /\ ret.val # None
               /\ \A j \in 1..Len(pre.root) : borrow(ret.val[1]) <= borrow(pre.root[j][1])
               /\ PopRemoved(ret.val[1])
    /\ ret.op = "pop_last" =>
          IF BTreeSet_is_empty(pre)
          THEN ret.val = None /\ BTreeSet_is_empty(set)
          ELSE /\ ret.val # None
               /\ \A j \in 1..Len(pre.root) : borrow(ret.val[1]) >= borrow(pre.root[j][1])
               /\ PopRemoved(ret.val[1])

C5_Witness ==
    /\ ret.op = "pop_first"
    /\ ret.val # None
    /\ BTreeSet_len(set) >= 2

\* C6: for every pair of bounds, the iterator range(bounds) returns yields
\* exactly the subsequence of iter() whose elements satisfy the bounds, in
\* the same order.
C6_RangeIsRestriction ==
    ret.op = "Range" =>
        CollectRange(it.inner) = Restrict(CollectIter(BTreeSet_iter(set)), ret.arg)

C6_Witness ==
    /\ it.kind = "Range"
    /\ exhausted
    /\ Len(Fronts) >= 2
    /\ Backs = <<>>
    /\ Len(Fronts) < BTreeSet_len(set)

\* C7: any interleaving of next() and next_back() on one iterator yields
\* every element of the iterated contents exactly once before exhaustion:
\* next() the smallest not yet yielded, next_back() the largest.
C7_EndsConverge ==
    it.kind # "none" =>
        /\ Fronts = SubSeq(src, 1, Len(Fronts))
        /\ Backs = Reverse(SubSeq(src, Len(src) - Len(Backs) + 1, Len(src)))
        /\ Len(Fronts) + Len(Backs) <= Len(src)
        /\ exhausted => Len(Fronts) + Len(Backs) = Len(src)

C7_Witness ==
    /\ it.kind = "Iter"
    /\ exhausted
    /\ Len(src) >= 3
    /\ Len(Fronts) >= 1
    /\ Len(Backs) >= 1

\* C8: the count an Iter or IntoIter reports (len(), both bounds of
\* size_hint()) is the number of elements it will still produce: the set's
\* len() at the start, one less per yielded element, 0 at exhaustion.
Remaining == IF it.kind = "Iter" THEN Iter_len(it.inner) ELSE IntoIter_len(it.inner)
Hint == IF it.kind = "Iter" THEN Iter_size_hint(it.inner) ELSE IntoIter_size_hint(it.inner)

C8_ExactRemaining ==
    it.kind \in {"Iter", "IntoIter"} =>
        /\ Remaining = Len(src) - Len(yielded)
        /\ Hint = <<Remaining, Some(Remaining)>>
        /\ (it.kind = "Iter" /\ yielded = <<>>) => Remaining = BTreeSet_len(set)
        /\ exhausted => Remaining = 0

C8_Witness ==
    /\ it.kind = "Iter"
    /\ Len(Fronts) >= 1
    /\ Len(Backs) >= 1
    /\ Remaining >= 1

\* C9: once an Iter or IntoIter has returned None, every later next() and
\* next_back() on it returns None and produces nothing.
C9_Fused ==
    [][(/\ it.kind \in {"Iter", "IntoIter"}
        /\ exhausted
        /\ it'.kind = it.kind
        /\ ret'.op \in {"next", "next_back"})
          => (ret'.val = None /\ yielded' = yielded /\ exhausted')]_vars

C9_Witness ==
    /\ it.kind \in {"Iter", "IntoIter"}
    /\ exhausted
    /\ Len(src) >= 2
    /\ ret.op = "next" /\ ret.val = None
    /\ yielded[Len(yielded)][1] = "next_back"

\* C10: a set drained by into_iter in any mix of next() and next_back() and
\* rebuilt by extend on a fresh set of the same store has exactly the
\* elements of the original.
C10_RoundTrip ==
    ret.op = "extend" =>
        /\ Elems(set) = src
        /\ set.store = it.inner.btree.store

C10_Witness ==
    /\ ret.op = "extend"
    /\ Len(src) >= 3
    /\ Len(Backs) >= 1
    /\ Len(Fronts) >= 1
    /\ ret.arg # src

====
